---- MODULE Spec2Model ----
(***************************************************************************)
(* The main window controller of the to-do application (src/window.rs):    *)
(* the collections list store, the current collection, the filter list     *)
(* model bound to the task list, the entry, the new-collection dialog and  *)
(* the JSON file written on close and read at startup.                     *)
(*                                                                         *)
(* A list store is a sequence of objects.  Collections are never removed   *)
(* or reordered, so a CollectionObject is identified by the position at    *)
(* which it was appended.  An Option<T> is the empty set or a singleton.   *)
(***************************************************************************)
EXTENDS Integers, Sequences, FiniteSets, TLC

VARIABLES
    collections,              \* imp.collections: ListStore of CollectionObject
    current_collection,       \* imp.current_collection: Option<CollectionObject>
    current_filter_model,     \* imp.current_filter_model: Option<FilterListModel>
    tasks_changed_handler_id, \* imp.tasks_changed_handler_id: Option<SignalHandlerId>
    connected,                \* task stores with an items-changed handler attached
    tasks_list_visible,       \* imp.tasks_list visibility
    selected_row,             \* selected row of imp.collections_list
    stack,                    \* visible child of imp.stack
    show_content,             \* imp.split_view show-content
    entry,                    \* text of imp.entry
    dialog,                   \* the new-collection dialog awaited by new_collection
    settings,                 \* value of the "filter" settings key
    file,                     \* the JSON file at data_path()
    phase,                    \* "running" | "closed"
    starts,                   \* how many times the application has been started
    crashed                   \* a handler panicked

vars == <<collections, current_collection, current_filter_model,
          tasks_changed_handler_id, connected, tasks_list_visible, selected_row,
          stack, show_content, entry, dialog, settings, file, phase, starts, crashed>>

(* ---------------------------- bounds ---------------------------------- *)
MaxCollections == 2
MaxTasks == 2
MaxStarts == 2

Texts == {"", "a", " "}
Titles == {"Work", "Home"}
DialogTexts == {"", "Work"}
FilterSettings == {"All", "Open", "Done"}

(* ---------------------------- helpers --------------------------------- *)
SeqsUpTo(S, n) == UNION {[1..k -> S] : k \in 0..n}

RemoveAt(s, i) == [j \in 1..(Len(s) - 1) |-> IF j < i THEN s[j] ELSE s[j + 1]]

RECURSIVE TotalTasks(_)
TotalTasks(cs) ==
    IF cs = <<>> THEN 0 ELSE Len(Head(cs).tasks) + TotalTasks(Tail(cs))

RECURSIVE MaskSelect(_, _)
MaskSelect(s, mask) ==
    IF s = <<>> THEN <<>>
    ELSE (IF Head(mask) THEN <<Head(s)>> ELSE <<>>) \o MaskSelect(Tail(s), Tail(mask))

(* --------------------- entities (task_object, collection_object) ------ *)
TaskObject(completed, content) == [completed |-> completed, content |-> content]

CollectionObject(title, tasks) == [title |-> title, tasks |-> tasks]

to_collection_data(collection_object) ==
    [title |-> collection_object.title,
     tasks |-> [i \in 1..Len(collection_object.tasks) |->
                  [completed |-> collection_object.tasks[i].completed,
                   content   |-> collection_object.tasks[i].content]]]

from_collection_data(collection_data) ==
    CollectionObject(collection_data.title,
        [i \in 1..Len(collection_data.tasks) |->
            TaskObject(collection_data.tasks[i].completed,
                       collection_data.tasks[i].content)])

(* ---------------------------- the file -------------------------------- *)
MissingFile == [kind |-> "missing", data |-> <<>>]
MalformedFile == [kind |-> "malformed", data |-> <<>>]
JsonFile(data) == [kind |-> "json", data |-> data]

TaskValues == {[completed |-> c, content |-> t] : c \in BOOLEAN, t \in Texts \ {""}}

ExampleFile ==
    JsonFile(<<[title |-> "Home",
                tasks |-> <<[completed |-> TRUE, content |-> "a"],
                            [completed |-> FALSE, content |-> " "],
                            [completed |-> TRUE, content |-> "a"]>>]>>)

InitFiles == {MissingFile, ExampleFile}

\* ts cut into n consecutive task sequences, the i-th ending at cuts[i]
Chunks(ts, n, cuts, titles) ==
    [i \in 1..n |->
        [title |-> titles[i],
         tasks |-> SubSeq(ts, (IF i = 1 THEN 0 ELSE cuts[i - 1]) + 1, cuts[i])]]

\* every well-formed document of at most MaxCollections collections and MaxTasks tasks
JsonDocuments ==
    UNION {
        {Chunks(ts, n, cuts, titles) :
            cuts \in {c \in [1..n -> 0..Len(ts)] :
                        /\ c[n] = Len(ts)
                        /\ \A i \in 1..(n - 1) : c[i] <= c[i + 1]},
            titles \in [1..n -> Titles]}
        : ts \in SeqsUpTo(TaskValues, MaxTasks), n \in 1..MaxCollections}
    \cup {<<>>}

\* a document cut off after its first, complete collection: data is what a
\* lenient parser could still recover
TruncatedFile == [kind |-> "malformed", data |-> ExampleFile.data]

RestartFiles ==
    {MissingFile, MalformedFile, TruncatedFile} \cup {JsonFile(d) : d \in JsonDocuments}

(* ---------------------------- filter policy --------------------------- *)
filter_open(task_object) == ~task_object.completed

\* faulty variant: the closure of filter_open, copied
filter_done_copied(task_object) == ~task_object.completed

filter_done(task_object) == task_object.completed

\* faulty variant: the arms of the match are swapped
filter_swapped(filter_state) ==
    CASE filter_state = "All" -> {}
      [] filter_state = "Open" -> {"filter_done"}
      [] filter_state = "Done" -> {"filter_open"}

\* Option<CustomFilter>: {} is None
filter(filter_state) ==
    CASE filter_state = "All" -> {}
      [] filter_state = "Open" -> {"filter_open"}
      [] filter_state = "Done" -> {"filter_done"}

\* does a FilterListModel holding custom_filter keep task_object?
Match(custom_filter, task_object) ==
    \A f \in custom_filter :
        CASE f = "filter_open" -> filter_open(task_object)
          [] f = "filter_done" -> filter_done(task_object)

\* FilterListModel::new(Some(tasks), filter): every item is evaluated once
FilterListModel(model, tasks, custom_filter) ==
    [model   |-> model,
     filter  |-> custom_filter,
     matches |-> [i \in 1..Len(tasks) |-> Match(custom_filter, tasks[i])]]

(* ---------------------------- window state ---------------------------- *)
ClosedDialog == [open |-> FALSE, text |-> "", create_enabled |-> FALSE]

\* the window as a record, so that handlers compose
Window ==
    [collections |-> collections,
     current_collection |-> current_collection,
     current_filter_model |-> current_filter_model,
     tasks_changed_handler_id |-> tasks_changed_handler_id,
     connected |-> connected,
     tasks_list_visible |-> tasks_list_visible,
     selected_row |-> selected_row,
     stack |-> stack,
     show_content |-> show_content,
     entry |-> entry,
     dialog |-> dialog,
     settings |-> settings,
     file |-> file,
     phase |-> phase,
     starts |-> starts,
     crashed |-> crashed]

Becomes(w) ==
    /\ collections' = w.collections
    /\ current_collection' = w.current_collection
    /\ current_filter_model' = w.current_filter_model
    /\ tasks_changed_handler_id' = w.tasks_changed_handler_id
    /\ connected' = w.connected
    /\ tasks_list_visible' = w.tasks_list_visible
    /\ selected_row' = w.selected_row
    /\ stack' = w.stack
    /\ show_content' = w.show_content
    /\ entry' = w.entry
    /\ dialog' = w.dialog
    /\ settings' = w.settings
    /\ file' = w.file
    /\ phase' = w.phase
    /\ starts' = w.starts
    /\ crashed' = w.crashed

Is(w) ==
    /\ collections = w.collections
    /\ current_collection = w.current_collection
    /\ current_filter_model = w.current_filter_model
    /\ tasks_changed_handler_id = w.tasks_changed_handler_id
    /\ connected = w.connected
    /\ tasks_list_visible = w.tasks_list_visible
    /\ selected_row = w.selected_row
    /\ stack = w.stack
    /\ show_content = w.show_content
    /\ entry = w.entry
    /\ dialog = w.dialog
    /\ settings = w.settings
    /\ file = w.file
    /\ phase = w.phase
    /\ starts = w.starts
    /\ crashed = w.crashed

\* a panic in a handler aborts the process
Panic(w) == [w EXCEPT !.crashed = TRUE]

\* the template's widgets and the Default fields, before constructed() runs
NewWindow(f, filter_state, n) ==
    [collections |-> <<>>,
     current_collection |-> {},
     current_filter_model |-> {},
     tasks_changed_handler_id |-> {},
     connected |-> {},
     tasks_list_visible |-> TRUE,
     selected_row |-> {},
     stack |-> "placeholder",
     show_content |-> FALSE,
     entry |-> "",
     dialog |-> ClosedDialog,
     settings |-> filter_state,
     file |-> f,
     phase |-> "running",
     starts |-> n,
     crashed |-> FALSE]

(* ---------------------------- controller ------------------------------ *)
set_task_list_visible(w, tasks) ==
    [w EXCEPT !.tasks_list_visible = Len(tasks) > 0]

select_collection_row(w) ==
    IF w.current_collection = {} THEN Panic(w)
    ELSE LET found == w.current_collection \cap (1..Len(w.collections))
         IN  IF found # {} THEN [w EXCEPT !.selected_row = found] ELSE w

set_stack(w) ==
    IF Len(w.collections) > 0
    THEN [w EXCEPT !.stack = "main"]
    ELSE [w EXCEPT !.stack = "placeholder"]

\* faulty variant: the filter model is built without the current filter
set_current_collection_unfiltered(w, collection) ==
    LET tasks == w.collections[collection].tasks
        w1 == [w EXCEPT !.current_filter_model = {FilterListModel(collection, tasks, {})}]
        w2 == [w1 EXCEPT
                 !.connected = (@ \ (w1.tasks_changed_handler_id
                                        \cap w1.current_collection)) \cup {collection},
                 !.tasks_changed_handler_id = {collection}]
        w3 == set_task_list_visible(w2, tasks)
    IN  select_collection_row([w3 EXCEPT !.current_collection = {collection}])

\* faulty variant: the handler of the old task store is never disconnected
set_current_collection_keeps_handler(w, collection) ==
    LET tasks == w.collections[collection].tasks
        filter_model == FilterListModel(collection, tasks, filter(w.settings))
        w1 == [w EXCEPT !.current_filter_model = {filter_model}]
        w3 == set_task_list_visible(w1, tasks)
        w4 == [w3 EXCEPT !.connected = @ \cup {collection},
                         !.tasks_changed_handler_id = {collection}]
        w5 == [w4 EXCEPT !.current_collection = {collection}]
    IN  select_collection_row(w5)

set_current_collection(w, collection) ==
    LET tasks == w.collections[collection].tasks
        filter_model == FilterListModel(collection, tasks, filter(w.settings))
        w1 == [w EXCEPT !.current_filter_model = {filter_model}]
    IN  IF w1.tasks_changed_handler_id # {} /\ w1.current_collection = {}
        THEN Panic(w1)
        ELSE LET \* disconnect(handler_id) on the store of the old current collection
                 w2 == [w1 EXCEPT
                          !.connected = @ \ (w1.tasks_changed_handler_id
                                               \cap w1.current_collection),
                          !.tasks_changed_handler_id = {}]
                 w3 == set_task_list_visible(w2, tasks)
                 w4 == [w3 EXCEPT !.connected = @ \cup {collection},
                                  !.tasks_changed_handler_id = {collection}]
                 w5 == [w4 EXCEPT !.current_collection = {collection}]
             IN  select_collection_row(w5)

\* faulty variant: the first loaded collection is not made current
restore_data_no_current(w) ==
    CASE w.file.kind = "missing" -> w
      [] w.file.kind = "malformed" -> Panic(w)
      [] w.file.kind = "json" ->
            [w EXCEPT !.collections =
                @ \o [i \in 1..Len(w.file.data) |-> from_collection_data(w.file.data[i])]]

\* faulty variant: the last loaded collection is made current
restore_data_last_current(w) ==
    CASE w.file.kind = "missing" -> w
      [] w.file.kind = "malformed" -> Panic(w)
      [] w.file.kind = "json" ->
            LET loaded == [i \in 1..Len(w.file.data) |->
                              from_collection_data(w.file.data[i])]
                w1 == [w EXCEPT !.collections = @ \o loaded]
            IN  IF loaded # <<>>
                THEN set_current_collection(w1, Len(w1.collections))
                ELSE w1

\* faulty variant: what can be parsed of a malformed file is loaded
restore_data_partial(w) ==
    IF w.file.kind = "missing" THEN w
    ELSE LET loaded == [i \in 1..Len(w.file.data) |->
                           from_collection_data(w.file.data[i])]
             w1 == [w EXCEPT !.collections = @ \o loaded]
         IN  IF loaded # <<>> THEN set_current_collection(w1, 1) ELSE w1

restore_data(w) ==
    CASE w.file.kind = "missing" -> w
      [] w.file.kind = "malformed" -> Panic(w)
      [] w.file.kind = "json" ->
            LET backup_data == w.file.data
                loaded == [i \in 1..Len(backup_data) |->
                              from_collection_data(backup_data[i])]
                first == Len(w.collections) + 1
                w1 == [w EXCEPT !.collections = @ \o loaded]
            IN  IF loaded # <<>> THEN set_current_collection(w1, first) ELSE w1

\* faulty variant: set_stack runs only from the items-changed closure
constructed_without_set_stack(w) == restore_data(w)

\* ObjectImpl::constructed
constructed(w) ==
    LET w1 == restore_data(w)
    IN  IF w1.crashed THEN w1 ELSE set_stack(w1)

(* ------------------- task stores and their subscribers ---------------- *)
\* what the FilterListModel does on items-changed of the store it wraps
filter_model_items_appended(fm, store, task_object) ==
    IF fm.model = store
    THEN [fm EXCEPT !.matches = Append(@, Match(fm.filter, task_object))]
    ELSE fm

filter_model_items_removed(fm, store, index) ==
    IF fm.model = store
    THEN [fm EXCEPT !.matches = RemoveAt(@, index)]
    ELSE fm

\* FilterListModel::set_filter: every item is evaluated again
filter_model_set_filter(fm, tasks, custom_filter) ==
    IF fm.filter = {} /\ custom_filter = {} THEN fm
    ELSE [fm EXCEPT !.filter = custom_filter,
                    !.matches = [i \in 1..Len(tasks) |-> Match(custom_filter, tasks[i])]]

\* the items-changed closure connected in set_current_collection
tasks_items_changed(w, store) ==
    IF store \in w.connected
    THEN set_task_list_visible(w, w.collections[store].tasks)
    ELSE w

\* ListStore::append on the task store of a collection
tasks_append(w, store, task_object) ==
    LET w1 == [w EXCEPT
                 !.collections[store].tasks = Append(@, task_object),
                 !.current_filter_model =
                     {filter_model_items_appended(fm, store, task_object) : fm \in @}]
    IN  tasks_items_changed(w1, store)

\* ListStore::remove(position) on the task store of a collection; index = position + 1
tasks_remove(w, store, index) ==
    LET w1 == [w EXCEPT
                 !.collections[store].tasks = RemoveAt(@, index),
                 !.current_filter_model =
                     {filter_model_items_removed(fm, store, index) : fm \in @}]
    IN  tasks_items_changed(w1, store)

(* ---------------------------- handlers -------------------------------- *)
\* faulty variant: whitespace-only content is rejected like empty content
new_task_trimmed(w) ==
    LET content == w.entry
    IN  IF content \in {"", " "} THEN w
        ELSE LET w1 == [w EXCEPT !.entry = ""]
             IN  IF w1.current_collection = {} THEN Panic(w1)
                 ELSE tasks_append(w1, CHOOSE c \in w1.current_collection : TRUE,
                                   TaskObject(FALSE, content))

\* faulty variant: the task goes to the store of the first collection
new_task_first_collection(w) ==
    LET content == w.entry
    IN  IF content = "" THEN w
        ELSE LET w1 == [w EXCEPT !.entry = ""]
             IN  IF w1.current_collection = {} THEN Panic(w1)
                 ELSE tasks_append(w1, 1, TaskObject(FALSE, content))

\* faulty variant: the buffer is not cleared
new_task_keeps_entry(w) ==
    LET content == w.entry
    IN  IF content = "" THEN w
        ELSE IF w.current_collection = {} THEN Panic(w)
             ELSE tasks_append(w, CHOOSE c \in w.current_collection : TRUE,
                               TaskObject(FALSE, content))

new_task(w) ==
    LET content == w.entry
    IN  IF content = "" THEN w
        ELSE LET w1 == [w EXCEPT !.entry = ""]
                 task == TaskObject(FALSE, content)
             IN  IF w1.current_collection = {} THEN Panic(w1)
                 ELSE LET store == CHOOSE c \in w1.current_collection : TRUE
                      IN  tasks_append(w1, store, task)

\* faulty variant: the position advances after a removal too
RECURSIVE remove_done_loop_advancing(_, _, _, _)
remove_done_loop_advancing(w, store, position, iterations) ==
    LET tasks == w.collections[store].tasks
    IN  IF position < Len(tasks)
        THEN IF tasks[position + 1].completed
             THEN remove_done_loop_advancing(tasks_remove(w, store, position + 1), store,
                                             position + 1, iterations + 1)
             ELSE remove_done_loop_advancing(w, store, position + 1, iterations + 1)
        ELSE [w |-> w, position |-> position, iterations |-> iterations]

\* faulty variant: the position starts over after a removal
RECURSIVE remove_done_loop_restarting(_, _, _, _)
remove_done_loop_restarting(w, store, position, iterations) ==
    LET tasks == w.collections[store].tasks
    IN  IF position < Len(tasks)
        THEN IF tasks[position + 1].completed
             THEN remove_done_loop_restarting(tasks_remove(w, store, position + 1), store,
                                              0, iterations + 1)
             ELSE remove_done_loop_restarting(w, store, position + 1, iterations + 1)
        ELSE [w |-> w, position |-> position, iterations |-> iterations]

\* the while loop of remove_done_tasks, from `position` (0-based) on
RECURSIVE remove_done_loop(_, _, _, _)
remove_done_loop(w, store, position, iterations) ==
    LET tasks == w.collections[store].tasks
    IN  IF position < Len(tasks)
        THEN IF tasks[position + 1].completed
             THEN remove_done_loop(tasks_remove(w, store, position + 1), store,
                                   position, iterations + 1)
             ELSE remove_done_loop(w, store, position + 1, iterations + 1)
        ELSE [w |-> w, position |-> position, iterations |-> iterations]

\* faulty variant: the loop stops after the first removal
remove_done_tasks_first_only(w) ==
    IF w.current_collection = {} THEN Panic(w)
    ELSE LET store == CHOOSE c \in w.current_collection : TRUE
             tasks == w.collections[store].tasks
             done == {i \in 1..Len(tasks) : tasks[i].completed}
         IN  IF done = {} THEN w
             ELSE tasks_remove(w, store, CHOOSE i \in done : \A j \in done : i <= j)

remove_done_tasks(w) ==
    IF w.current_collection = {} THEN Panic(w)
    ELSE LET store == CHOOSE c \in w.current_collection : TRUE
         IN  remove_done_loop(w, store, 0, 0).w

set_filter(w) ==
    IF w.current_filter_model = {} THEN Panic(w)
    ELSE [w EXCEPT !.current_filter_model =
             {filter_model_set_filter(fm, w.collections[fm.model].tasks,
                                      filter(w.settings)) : fm \in @}]

\* new_collection up to the await: the dialog is built and presented
new_collection_dialog(w) ==
    [w EXCEPT !.dialog = [open |-> TRUE, text |-> "", create_enabled |-> FALSE]]

\* the connect_changed closure of the dialog's entry
dialog_entry_changed(w, text) ==
    [w EXCEPT !.dialog.text = text, !.dialog.create_enabled = ~(text = "")]

\* faulty variant: the new collection becomes current only when none was
new_collection_response_keeps_current(w, response) ==
    LET w1 == [w EXCEPT !.dialog = ClosedDialog]
    IN  IF response = "cancel" THEN w1
        ELSE LET collection == CollectionObject(w.dialog.text, <<>>)
                 w2 == set_stack([w1 EXCEPT !.collections = Append(@, collection)])
                 w3 == IF w2.current_collection = {}
                       THEN set_current_collection(w2, Len(w2.collections))
                       ELSE w2
             IN  [w3 EXCEPT !.show_content = TRUE]

\* faulty variant: the response is not compared with cancel_response
new_collection_response_ignores_cancel(w, response) ==
    LET w1 == [w EXCEPT !.dialog = ClosedDialog]
        collection == CollectionObject(w.dialog.text, <<>>)
        w2 == set_stack([w1 EXCEPT !.collections = Append(@, collection)])
        w3 == set_current_collection(w2, Len(w2.collections))
    IN  [w3 EXCEPT !.show_content = TRUE]

\* faulty variant: the new collection is inserted in front of the others
new_collection_response_front(w, response) ==
    LET w1 == [w EXCEPT !.dialog = ClosedDialog]
    IN  IF response = "cancel" THEN w1
        ELSE LET collection == CollectionObject(w.dialog.text, <<>>)
                 w2 == set_stack([w1 EXCEPT !.collections = <<collection>> \o @])
                 w3 == set_current_collection(w2, Len(w2.collections))
             IN  IF w3.crashed THEN w3 ELSE [w3 EXCEPT !.show_content = TRUE]

\* new_collection from the await on
new_collection_response(w, response) ==
    LET w1 == [w EXCEPT !.dialog = ClosedDialog]
    IN  IF response = "cancel" THEN w1
        ELSE LET title == w.dialog.text
                 collection == CollectionObject(title, <<>>)
                 w2 == set_stack([w1 EXCEPT !.collections = Append(@, collection)])
                 w3 == set_current_collection(w2, Len(w2.collections))
             IN  IF w3.crashed THEN w3 ELSE [w3 EXCEPT !.show_content = TRUE]

\* the connect_row_activated closure; index = row.index() + 1
row_activated(w, index) ==
    IF index \notin 1..Len(w.collections) THEN Panic(w)
    ELSE LET w1 == set_current_collection(w, index)
         IN  IF w1.crashed THEN w1 ELSE [w1 EXCEPT !.show_content = TRUE]

\* faulty variant: the button only ever sets the flag
check_button_toggled_one_way(w, store, index) ==
    [w EXCEPT !.collections[store].tasks[index].completed = TRUE]

\* the bidirectional "completed" <-> "active" binding of a task row
check_button_toggled(w, store, index) ==
    [w EXCEPT !.collections[store].tasks[index].completed = ~@]

\* the settings store delivers a new value of "filter", then the changed closure runs
filter_setting_changed(w, filter_state) ==
    set_filter([w EXCEPT !.settings = filter_state])

\* the two connect_icon_release closures, in connection order
entry_icon_release(w) ==
    LET w1 == new_task(w)
    IN  IF w1.crashed THEN w1 ELSE new_task(w1)

\* faulty variant: the last collection is not written
close_request_skips_last(w) ==
    LET backup_data == [i \in 1..(Len(w.collections) - 1) |->
                           to_collection_data(w.collections[i])]
    IN  [w EXCEPT !.file = JsonFile(backup_data), !.phase = "closed"]

close_request(w) ==
    LET backup_data == [i \in 1..Len(w.collections) |->
                           to_collection_data(w.collections[i])]
    IN  [w EXCEPT !.file = JsonFile(backup_data), !.phase = "closed"]

(* ---------------------------- actions --------------------------------- *)
Running == phase = "running" /\ ~crashed

\* the user edits the entry
EntryChanged ==
    /\ Running
    /\ \E text \in Texts \ {entry} : Becomes([Window EXCEPT !.entry = text])

\* would new_task append to a task store?
NewTaskAppends == entry # "" /\ current_collection # {}

EntryActivate ==
    /\ Running
    /\ NewTaskAppends => TotalTasks(collections) < MaxTasks
    /\ Becomes(new_task(Window))

EntryIconRelease ==
    /\ Running
    /\ NewTaskAppends => TotalTasks(collections) < MaxTasks
    /\ Becomes(entry_icon_release(Window))

FilterChanged ==
    /\ Running
    /\ \E filter_state \in FilterSettings \ {settings} :
          Becomes(filter_setting_changed(Window, filter_state))

RowActivated ==
    /\ Running
    /\ \E index \in 1..Len(collections) : Becomes(row_activated(Window, index))

\* the rows of the task list are the items the filter model lets through
CheckButtonToggled ==
    /\ Running
    /\ tasks_list_visible
    /\ \E fm \in current_filter_model :
         \E index \in 1..Len(fm.matches) :
            /\ fm.matches[index]
            /\ Becomes(check_button_toggled(Window, fm.model, index))

RemoveDoneTasks ==
    /\ Running
    /\ Becomes(remove_done_tasks(Window))

NewCollection ==
    /\ Running
    /\ ~dialog.open
    /\ Becomes(new_collection_dialog(Window))

DialogEntryChanged ==
    /\ Running
    /\ dialog.open
    /\ \E text \in DialogTexts \ {dialog.text} :
          Becomes(dialog_entry_changed(Window, text))

DialogCancel ==
    /\ Running
    /\ dialog.open
    /\ Becomes(new_collection_response(Window, "cancel"))

DialogCreate ==
    /\ Running
    /\ dialog.open
    /\ dialog.create_enabled
    /\ Len(collections) < MaxCollections
    /\ Becomes(new_collection_response(Window, "create"))

CloseRequest ==
    /\ Running
    /\ Becomes(close_request(Window))

\* the next start of the application: a new window is constructed
Startup ==
    /\ phase = "closed"
    /\ starts < MaxStarts
    /\ Becomes(constructed(NewWindow(file, settings, starts + 1)))

(* ---------------------------- specifications -------------------------- *)
Init ==
    \E f \in InitFiles, filter_state \in FilterSettings :
        Is(constructed(NewWindow(f, filter_state, 1)))

Next ==
    \/ EntryChanged
    \/ EntryActivate
    \/ EntryIconRelease
    \/ FilterChanged
    \/ RowActivated
    \/ CheckButtonToggled
    \/ RemoveDoneTasks
    \/ NewCollection
    \/ DialogEntryChanged
    \/ DialogCancel
    \/ DialogCreate
    \/ CloseRequest

Spec == Init /\ [][Next]_vars

\* the application closed and started again, over every saved document
InitRestart ==
    \E f \in RestartFiles, filter_state \in FilterSettings :
        Is(constructed(NewWindow(f, filter_state, 1)))

NextRestart ==
    \/ RowActivated
    \/ CloseRequest
    \/ Startup

SpecRestart == InitRestart /\ [][NextRestart]_vars

(* ---------------------------- observations ---------------------------- *)
\* the tasks of the current collection (self.tasks()), <<>> when none is current
CurrentTasks(w) ==
    IF w.current_collection = {} THEN <<>>
    ELSE w.collections[CHOOSE c \in w.current_collection : TRUE].tasks

Open(tasks) == SelectSeq(tasks, LAMBDA t : ~t.completed)

Done(tasks) == SelectSeq(tasks, LAMBDA t : t.completed)

\* the items the task list shows: what the filter model lets through
View(w) ==
    IF w.current_filter_model = {} THEN <<>>
    ELSE LET fm == CHOOSE m \in w.current_filter_model : TRUE
         IN  MaskSelect(w.collections[fm.model].tasks, fm.matches)

\* same number and order of collections, same titles, same tasks
SameCollections(a, b) ==
    /\ Len(a) = Len(b)
    /\ \A i \in 1..Len(a) :
          /\ a[i].title = b[i].title
          /\ Len(a[i].tasks) = Len(b[i].tasks)
          /\ \A j \in 1..Len(a[i].tasks) :
                /\ a[i].tasks[j].completed = b[i].tasks[j].completed
                /\ a[i].tasks[j].content = b[i].tasks[j].content

(* ---------------------------- claims ---------------------------------- *)

\* C1: selection invariant.  In every state reached by the startup load and any
\* sequence of create collection (confirmed or cancelled) and select collection,
\* a non-empty collection sequence has exactly one current collection, which is
\* an element of the sequence; an empty one has no current collection.
C1_SelectionInvariant ==
    IF Len(collections) > 0
    THEN /\ Cardinality(current_collection) = 1
         /\ current_collection \subseteq 1..Len(collections)
    ELSE current_collection = {}

\* two collections were created in this run and the first was selected again
C1_Witness ==
    /\ file = MissingFile
    /\ phase = "running"
    /\ Len(collections) = 2
    /\ current_collection = {1}
    /\ ~dialog.open

C3_RemoveCompleted ==
    (Running /\ current_collection # {}) =>
        LET after == remove_done_tasks(Window)
        IN  /\ ~after.crashed
            /\ after.current_collection = current_collection
            /\ CurrentTasks(after) = Open(CurrentTasks(Window))

\* the saved [done a, open " ", done a] was loaded and compacted to [open " "]
C3_Witness ==
    /\ file = ExampleFile
    /\ phase = "running"
    /\ Len(collections) = 1
    /\ collections[1].tasks = <<TaskObject(FALSE, " ")>>

\* C4: remove completed tasks is idempotent.  With a current collection, applying
\* it twice in a row leaves the whole state (all collections and their tasks, and
\* the rest of the window) equal to the state after applying it once.
C4_RemoveIdempotent ==
    (Running /\ current_collection # {}) =>
        remove_done_tasks(remove_done_tasks(Window)) = remove_done_tasks(Window)

\* every task of the loaded [done a, open " ", done a] was completed and removed
C4_Witness ==
    /\ file = ExampleFile
    /\ phase = "running"
    /\ Len(collections) = 1
    /\ collections[1].tasks = <<>>
    /\ ~tasks_list_visible

\* C5: a confirmed create collection appends exactly one collection with the
\* typed title and no tasks at the end of the collection sequence, leaves the
\* earlier collections and their order unchanged, and makes the new one current.
C5_CreateCollection ==
    [][DialogCreate
          => /\ ~crashed'
             /\ collections' = Append(collections, CollectionObject(dialog.text, <<>>))
             /\ collections'[Len(collections')].title = dialog.text
             /\ collections'[Len(collections')].tasks = <<>>
             /\ SubSeq(collections', 1, Len(collections)) = collections
             /\ current_collection' = {Len(collections')}]_vars

\* created while another collection, holding tasks, was current
C5_Witness ==
    /\ file = ExampleFile
    /\ phase = "running"
    /\ Len(collections) = 2
    /\ Len(collections[1].tasks) > 0
    /\ collections[2] = CollectionObject("Work", <<>>)
    /\ current_collection = {2}

\* what startup leaves for the file it read
Loaded(f, colls, current) ==
    IF f.kind = "json" /\ f.data # <<>>
    THEN /\ Len(colls) = Len(f.data)
         /\ current = {1}
         /\ colls[1].title = f.data[1].title
    ELSE /\ colls = <<>>
         /\ current = {}

\* C6: startup load.  After the load at startup no collection is current when
\* the persisted set is empty (or there is no file); otherwise the first
\* persisted collection is current, whichever was current when the file was saved.
C6_StartupLoad ==
    /\ (file.kind # "malformed" => Loaded(file, collections, current_collection))
    /\ [][(Startup /\ file.kind # "malformed")
             => Loaded(file, collections', current_collection')]_vars

\* a second run loaded two collections and the first one is current
C6_Witness ==
    /\ starts = 2
    /\ phase = "running"
    /\ Len(collections) = 2
    /\ collections[1].title # collections[2].title
    /\ current_collection = {1}
    /\ ~show_content

\* C7: add task.  With a current collection, add task with non-empty content
\* (whitespace-only included) appends exactly one Task(completed=false, content)
\* at the end of the current collection's tasks and clears the entry; with
\* empty content it changes nothing.
C7_AddTask ==
    (Running /\ current_collection # {}) =>
        \A after \in {new_task(Window), entry_icon_release(Window)} :
            IF entry # ""
            THEN /\ ~after.crashed
                 /\ after.current_collection = current_collection
                 /\ CurrentTasks(after) =
                       Append(CurrentTasks(Window), TaskObject(FALSE, entry))
                 /\ after.entry = ""
            ELSE after = Window

\* a whitespace-only task was added to a collection created in this run
C7_Witness ==
    /\ file = MissingFile
    /\ phase = "running"
    /\ Len(collections) = 1
    /\ collections[1].tasks = <<TaskObject(FALSE, " ")>>
    /\ entry = ""

\* the tasks a filter setting is meant to show
Shown(filter_state, tasks) ==
    CASE filter_state = "All" -> tasks
      [] filter_state = "Open" -> Open(tasks)
      [] filter_state = "Done" -> Done(tasks)

\* C8: filter changed.  With a collection current, after the filter setting
\* changes the filtered view is exactly the tasks of the current collection the
\* new setting selects, in their order, and no collection's tasks have changed.
C8_FilterChanged ==
    [][(FilterChanged /\ current_collection # {})
          => /\ ~crashed'
             /\ View(Window') = Shown(settings', CurrentTasks(Window))
             /\ collections' = collections
             /\ current_collection' = current_collection]_vars

\* [done a, open " "] built in this run; the setting went to Done, showing only a
C8_Witness ==
    /\ file = MissingFile
    /\ phase = "running"
    /\ settings = "Done"
    /\ CurrentTasks(Window) = <<TaskObject(TRUE, "a"), TaskObject(FALSE, " ")>>
    /\ View(Window) = <<TaskObject(TRUE, "a")>>

\* the view of tasks under the filter of a setting
Filtered(filter_state, tasks) ==
    SelectSeq(tasks, LAMBDA t : Match(filter(filter_state), t))

\* C9: filter totality.  Every task is accepted by exactly one of the Open and
\* the Done predicate, so the Open and Done views partition any task sequence;
\* the setting All yields no predicate and excludes no task.
C9_FilterTotality ==
    /\ filter("All") = {}
    /\ \A i \in 1..Len(collections) :
          LET tasks == collections[i].tasks
          IN  /\ \A j \in 1..Len(tasks) :
                    /\ filter_open(tasks[j]) # filter_done(tasks[j])
                    /\ Match(filter("Open"), tasks[j]) # Match(filter("Done"), tasks[j])
                    /\ Match(filter("Open"), tasks[j]) = ~tasks[j].completed
              /\ Filtered("All", tasks) = tasks
              /\ Len(Filtered("Open", tasks)) + Len(Filtered("Done", tasks)) = Len(tasks)

\* a collection holds a completed and an open task
C9_Witness ==
    /\ file = MissingFile
    /\ phase = "running"
    /\ \E i \in 1..Len(collections) :
          /\ Open(collections[i].tasks) # <<>>
          /\ Done(collections[i].tasks) # <<>>

\* the only difference between before and after: the flag of task index of store
OnlyFlagFlipped(before, after, store, index) ==
    /\ after.collections[store].tasks[index].completed
          = ~before.collections[store].tasks[index].completed
    /\ after.collections[store].tasks[index].content
          = before.collections[store].tasks[index].content
    /\ Len(after.collections) = Len(before.collections)
    /\ \A i \in 1..Len(before.collections) :
          /\ after.collections[i].title = before.collections[i].title
          /\ Len(after.collections[i].tasks) = Len(before.collections[i].tasks)
          /\ \A j \in 1..Len(before.collections[i].tasks) :
                <<i, j>> # <<store, index>>
                    => after.collections[i].tasks[j] = before.collections[i].tasks[j]
    /\ after.current_collection = before.current_collection

\* C10: toggling the completion of a task shown in the task list flips the
\* completed flag of that task only: its content, the membership and order of
\* its task sequence, every other task, the collection sequence and the
\* current collection stay as they are.
C10_ToggleFrame ==
    (phase = "running" /\ ~crashed /\ tasks_list_visible) =>
        \A fm \in current_filter_model :
            \A index \in 1..Len(fm.matches) :
                fm.matches[index] =>
                    OnlyFlagFlipped(Window,
                                    check_button_toggled(Window, fm.model, index),
                                    fm.model, index)

\* of two tasks added in this run the second was completed and, still shown
\* under Open, can be toggled back
C10_Witness ==
    /\ file = MissingFile
    /\ phase = "running"
    /\ settings = "Open"
    /\ CurrentTasks(Window) = <<TaskObject(FALSE, "a"), TaskObject(TRUE, " ")>>
    /\ View(Window) = CurrentTasks(Window)

\* C11: cancelled create.  A cancel response (closing the dialog included) ends
\* the new-collection flow with no state change: the collections, every task
\* sequence and the current collection are as before the dialog was opened,
\* whatever text was typed.
C11_CancelledCreate ==
    Running =>
        /\ dialog.open =>
              new_collection_response(Window, "cancel")
                  = [Window EXCEPT !.dialog = ClosedDialog]
        /\ ~dialog.open =>
              /\ new_collection_response(new_collection_dialog(Window), "cancel") = Window
              /\ \A text \in DialogTexts \ {""} :
                    new_collection_response(
                        dialog_entry_changed(new_collection_dialog(Window), text),
                        "cancel") = Window

\* a title is typed into the open dialog while a collection with tasks is current
C11_Witness ==
    /\ phase = "running"
    /\ ~crashed
    /\ dialog.open
    /\ dialog.text = "Work"
    /\ Len(collections) = 1
    /\ Len(collections[1].tasks) = 2
    /\ current_collection = {1}

\* C12: placeholder or main.  Once the window is constructed the stack shows
\* "main" exactly when the collection sequence is non-empty and "placeholder"
\* exactly when it is empty; the startup load of a non-empty file and the first
\* create collection both end in "main".
C12_StackTracksCollections ==
    ~crashed =>
        /\ stack \in {"main", "placeholder"}
        /\ stack = "main" <=> Len(collections) > 0
        /\ stack = "placeholder" <=> Len(collections) = 0

\* the first collection was created in a run that started without a file
C12_Witness ==
    /\ file = MissingFile
    /\ phase = "running"
    /\ Len(collections) = 1
    /\ stack = "main"
    /\ show_content

\* C13: load errors.  A missing file is no error and gives the empty starting
\* state; a malformed file is fatal and the whole restore is abandoned: no state
\* holds only a part of the file's collections.
C13_LoadErrors ==
    /\ file.kind = "missing" =>
          /\ ~crashed
          /\ collections = <<>>
          /\ current_collection = {}
    /\ file.kind = "malformed" =>
          /\ crashed
          /\ collections = <<>>
          /\ current_collection = {}
    /\ file.kind = "json" =>
          /\ ~crashed
          /\ Len(collections) = Len(file.data)
          /\ \A i \in 1..Len(collections) :
                Len(collections[i].tasks) = Len(file.data[i].tasks)

\* startup panicked on the cut-off document and loaded none of it
C13_Witness ==
    /\ file = TruncatedFile
    /\ crashed
    /\ collections = <<>>
    /\ stack = "placeholder"

\* the collections that are not current are the same in after as in before
OthersUntouched(before, after) ==
    /\ Len(after.collections) = Len(before.collections)
    /\ \A i \in 1..Len(before.collections) :
          i \notin before.current_collection
              => after.collections[i] = before.collections[i]

\* C14: only the current collection is mutated.  Add task and remove completed
\* tasks change the task sequence of the current collection only, and no task
\* turns up in a second collection: an added task is one more task in all, a
\* removal takes away the completed tasks of the current collection and nothing
\* else, and no step of any kind writes the tasks of a collection that is not
\* current.  (A task entity is a position in the store of its collection.)
C14_OnlyCurrentMutated ==
    /\ []((Running /\ current_collection # {}) =>
            /\ \A after \in {new_task(Window), entry_icon_release(Window)} :
                  /\ OthersUntouched(Window, after)
                  /\ TotalTasks(after.collections)
                        = TotalTasks(collections) + (IF entry = "" THEN 0 ELSE 1)
            /\ LET after == remove_done_tasks(Window)
               IN  /\ OthersUntouched(Window, after)
                   /\ TotalTasks(after.collections)
                         = TotalTasks(collections) - Len(Done(CurrentTasks(Window))))
    /\ [][\A i \in 1..Len(collections) :
             i \notin current_collection => collections'[i] = collections[i]]_vars

\* the loaded collection was compacted, then a second one got a task of its own
C14_Witness ==
    /\ file = ExampleFile
    /\ phase = "running"
    /\ Len(collections) = 2
    /\ collections[1].tasks = <<TaskObject(FALSE, " ")>>
    /\ collections[2].tasks = <<TaskObject(FALSE, "a")>>
    /\ current_collection = {2}

\* the view is exactly what the current setting selects of the current tasks
ViewExact(w) == View(w) = Shown(w.settings, CurrentTasks(w))

\* C15 as claimed: live filtered view.  In every reachable state with a current
\* collection the displayed sequence is exactly the subsequence of the current
\* collection's tasks that satisfy the predicate of the current filter setting.
C15_LiveView ==
    (Running /\ current_collection # {}) => ViewExact(Window)

\* C15 as amended: the view is exact at startup and right after filter changed,
\* select collection and create collection; add task, remove completed tasks and
\* every other step but a toggle keep it exact; a toggle leaves the filter
\* model as it is, so the toggled task keeps its place in the view (or stays
\* out of it) until the next of the three.
C15_ViewUntilToggle ==
    /\ (current_collection # {} => ViewExact(Window))
    /\ [][(current_collection' # {} /\ ~crashed') =>
             /\ (FilterChanged \/ RowActivated \/ DialogCreate) => ViewExact(Window')
             /\ CheckButtonToggled => current_filter_model' = current_filter_model
             /\ (~CheckButtonToggled /\ current_collection # {} /\ ViewExact(Window))
                   => ViewExact(Window')]_vars

\* under Open a task added in this run was completed and is still shown
C15_Witness ==
    /\ file = MissingFile
    /\ phase = "running"
    /\ ~crashed
    /\ settings = "Open"
    /\ CurrentTasks(Window) = <<TaskObject(TRUE, "a")>>
    /\ View(Window) = <<TaskObject(TRUE, "a")>>

\* C16: one event, one transition.  With non-empty entry text and a current
\* collection, one icon click appends exactly one task to the current collection
\* although two icon-release closures call new_task (the first clears the entry,
\* which makes the second return early); one entry submit appends exactly one too.
C16_OneEventOneTask ==
    (Running /\ current_collection # {} /\ entry # "") =>
        LET submit == new_task(Window)
            click == entry_icon_release(Window)
            one_more == Append(CurrentTasks(Window), TaskObject(FALSE, entry))
        IN  /\ CurrentTasks(submit) = one_more
            /\ TotalTasks(submit.collections) = TotalTasks(collections) + 1
            /\ submit.entry = ""
            /\ new_task(submit) = submit
            /\ CurrentTasks(click) = one_more
            /\ TotalTasks(click.collections) = TotalTasks(collections) + 1
            /\ click = submit

\* one task "a" was added to the second collection created in this run
C16_Witness ==
    /\ file = MissingFile
    /\ phase = "running"
    /\ ~crashed
    /\ Len(collections) = 2
    /\ current_collection = {2}
    /\ collections[2].tasks = <<TaskObject(FALSE, "a")>>
    /\ collections[1].tasks = <<>>
    /\ entry = ""

\* the selection invariant, of a window value
SelectionHolds(w) ==
    IF Len(w.collections) > 0
    THEN \E c \in 1..Len(w.collections) : w.current_collection = {c}
    ELSE w.current_collection = {}

\* the windows one event handled while the dialog is open can leave
Interleaved(w) ==
    {filter_setting_changed(w, filter_state) : filter_state \in FilterSettings}
    \cup {new_task([w EXCEPT !.entry = "a"]), remove_done_tasks(w)}
    \cup {row_activated(w, index) : index \in 1..Len(w.collections)}
    \cup {check_button_toggled(w, c, index) :
             c \in w.current_collection, index \in 1..Len(CurrentTasks(w))}

\* C17: suspended dialog flow.  While the new-collection dialog is open, in every
\* state reached by any interleaving of other events the selection invariant
\* holds and the dialog stays as it was; a create response given in that state
\* appends exactly one empty collection, makes it current, and leaves the
\* collections as the interleaved events left them.
C17_SuspendedDialog ==
    (Running /\ dialog.open) =>
        /\ SelectionHolds(Window)
        /\ \A w2 \in Interleaved(Window) :
              ~w2.crashed => (w2.dialog = dialog /\ SelectionHolds(w2))
        /\ LET typed == dialog_entry_changed(Window, "Work")
               w3 == new_collection_response(typed, "create")
           IN  /\ ~w3.crashed
               /\ ~w3.dialog.open
               /\ Len(w3.collections) = Len(collections) + 1
               /\ w3.collections[Len(w3.collections)] = CollectionObject("Work", <<>>)
               /\ \A i \in 1..Len(collections) : w3.collections[i] = collections[i]
               /\ w3.current_collection = {Len(w3.collections)}
               /\ SelectionHolds(w3)

\* the dialog is open with a title typed, over a first collection whose loaded
\* tasks were compacted and toggled, while a second collection is current
C17_Witness ==
    /\ file = ExampleFile
    /\ phase = "running"
    /\ ~crashed
    /\ dialog.open
    /\ dialog.text = "Work"
    /\ Len(collections) = 2
    /\ collections[1].tasks = <<TaskObject(TRUE, " ")>>
    /\ current_collection = {2}
    /\ settings = "Done"

\* C18: no reachable crash on valid input.  Starting from a missing or well-formed
\* file and any filter setting, no sequence of events reaches a state in which an
\* expect on the current collection or the current filter model has panicked.
C18_NoCrash == ~crashed

\* C19: task-list visibility tracks the current collection.  In every state with
\* a current collection the task list is visible exactly when the current
\* collection's unfiltered task sequence is non-empty; one items-changed handler
\* is connected, to the current collection's task store; an append to or a
\* removal from the store of another collection leaves the visibility alone.
C19_VisibilityTracksCurrent ==
    current_collection # {} =>
        /\ tasks_list_visible <=> Len(CurrentTasks(Window)) > 0
        /\ Cardinality(connected) <= 1
        /\ connected = current_collection
        /\ tasks_changed_handler_id = current_collection
        /\ \A store \in (1..Len(collections)) \ current_collection :
              /\ tasks_append(Window, store, TaskObject(FALSE, "a")).tasks_list_visible
                    = tasks_list_visible
              /\ \A index \in 1..Len(collections[store].tasks) :
                    tasks_remove(Window, store, index).tasks_list_visible
                        = tasks_list_visible

\* the first collection holds a task, and the empty second one was made current
C19_Witness ==
    /\ file = MissingFile
    /\ phase = "running"
    /\ Len(collections) = 2
    /\ Len(collections[1].tasks) = 1
    /\ collections[2].tasks = <<>>
    /\ current_collection = {2}
    /\ connected = {2}
    /\ ~tasks_list_visible

\* C20: remove completed tasks terminates in one pass.  On a task sequence of
\* length n the loop ends after exactly n iterations; an iteration at a completed
\* item removes it and goes on at the same position, an iteration at an open item
\* goes on at the next position; the item that slides into a removed item's
\* position is examined, so the open tasks, in order, are what is left.
C20_OnePass ==
    (Running /\ current_collection # {}) =>
        LET store == CHOOSE c \in current_collection : TRUE
            tasks == CurrentTasks(Window)
            n == Len(tasks)
            whole == remove_done_loop(Window, store, 0, 0)
        IN  /\ whole.iterations = n
            /\ whole.position = Len(Open(tasks))
            /\ CurrentTasks(whole.w) = Open(tasks)
            /\ \A position \in 0..n :
                  LET rest == remove_done_loop(Window, store, position, 0)
                  IN  /\ rest.iterations = n - position
                      /\ CurrentTasks(rest.w)
                            = SubSeq(tasks, 1, position)
                                 \o Open(SubSeq(tasks, position + 1, n))
                      /\ position < n =>
                            rest = IF tasks[position + 1].completed
                                   THEN remove_done_loop(
                                            tasks_remove(Window, store, position + 1),
                                            store, position, 1)
                                   ELSE remove_done_loop(Window, store, position + 1, 1)

\* of the loaded [done a, open " ", done a] the first was reopened and the second
\* completed, and the pass removed the two adjacent completed tasks
C20_Witness ==
    /\ file = ExampleFile
    /\ phase = "running"
    /\ ~crashed
    /\ Len(collections) = 1
    /\ collections[1].tasks = <<TaskObject(FALSE, "a")>>
    /\ ~dialog.open
    /\ entry = ""

====
